---------------------------- MODULE Spec2Model ----------------------------
(***************************************************************************)
(* Model of the minimc wire codecs (src/src/lib.rs, src/src/types.rs):     *)
(* the byte sink and source capabilities, the boolean and fixed-width      *)
(* integer codecs, the VarNum codec (u32 and u64) and the text codec.      *)
(*                                                                         *)
(* Representation.  A byte is an integer 0..255.  A u32/u64 does not fit   *)
(* a model-checker integer, so every fixed-width integer value is held as  *)
(* its bit pattern: the set of the positions (0 = least significant) of    *)
(* its 1 bits.  &, |, <<, >> and `as u8` are defined on that pattern with  *)
(* the width of the Rust type.  A String is the sequence of its Unicode    *)
(* scalar values; bytes(), from_utf8 and encode_utf16().count() are        *)
(* computed from the UTF-8 / UTF-16 encoding rules.                        *)
(***************************************************************************)
EXTENDS Integers, Sequences, FiniteSets, TLC

(***************************************************************************)
(* Bit patterns                                                            *)
(***************************************************************************)

\* 2^n for a small n.
Pow2(n) == 2 ^ n

\* The bit pattern of a small non-negative integer (u8::from / u32::from / `as u32`).
NatBits(n) == {i \in 0..30 : (n \div Pow2(i)) % 2 = 1}

RECURSIVE SumPow2(_)
\* The integer whose bit pattern is the finite set S (S within 0..30).
SumPow2(S) ==
    IF S = {} THEN 0
    ELSE LET i == CHOOSE j \in S : TRUE IN Pow2(i) + SumPow2(S \ {i})

\* `value as u8`: the low eight bits, as a byte.
AsU8(value) == SumPow2(value \cap 0..7)

\* value >> n
Shr(value, n) == {i - n : i \in {j \in value : j >= n}}

\* value << n on a type of `bits` bits: bits shifted past the width are lost
\* (the code shifts by `position`, which is below the width at every shift).
Shl(value, n, bits) == {i + n : i \in {j \in value : j + n < bits}}

\* byte & mask on two bytes.
ByteAnd(a, b) == SumPow2(NatBits(a) \cap NatBits(b))

\* byte | mask on two bytes.
ByteOr(a, b) == SumPow2(NatBits(a) \cup NatBits(b))

\* a < b on bit patterns: the highest bit in which they differ is b's.
BitsLess(a, b) ==
    LET d == (a \ b) \cup (b \ a)
    IN  d # {} /\ (CHOOSE i \in d : \A j \in d : j <= i) \in b

\* The bits used for data.
SEGMENT_BITS == 127
\* The bit used as a marker for continuing.
CONTINUE_BIT == 128

(***************************************************************************)
(* Byte sink (McWriter) and byte source (McReader)                         *)
(***************************************************************************)

\* A fresh sink.  A `limited` sink accepts `cap` bytes and fails the call
\* that would deliver byte cap+1; `partial` says whether that failing call
\* still delivers the bytes that fit (the contract leaves it unspecified).
NewSink(limited, cap, partial) ==
    [bytes |-> <<>>, limited |-> limited, cap |-> cap, partial |-> partial,
     calls |-> 0, failed |-> FALSE, late |-> 0]

\* McWriter::write(bytes): all the bytes or an error.  `late` counts the
\* calls made after a call has already failed.
McWriter_write(writer, bs) ==
    IF writer.failed
    THEN [writer |-> [writer EXCEPT !.calls = @ + 1, !.late = @ + 1], ok |-> FALSE]
    ELSE IF writer.limited /\ Len(writer.bytes) + Len(bs) > writer.cap
    THEN [writer |-> [writer EXCEPT
                        !.calls = @ + 1,
                        !.failed = TRUE,
                        !.bytes = IF writer.partial
                                  THEN @ \o SubSeq(bs, 1, writer.cap - Len(@))
                                  ELSE @],
          ok |-> FALSE]
    ELSE [writer |-> [writer EXCEPT !.calls = @ + 1, !.bytes = @ \o bs], ok |-> TRUE]

\* A source holding `bs`, nothing consumed yet.
NewSource(bs) == [bytes |-> bs, pos |-> 0]

\* McReader::read(buffer of n bytes): fills the whole buffer or fails.
McReader_read(reader, n) ==
    IF reader.pos + n <= Len(reader.bytes)
    THEN [reader |-> [reader EXCEPT !.pos = @ + n], ok |-> TRUE,
          buf |-> SubSeq(reader.bytes, reader.pos + 1, reader.pos + n)]
    ELSE [reader |-> reader, ok |-> FALSE, buf |-> <<>>]

\* McReader::read_byte: read over a one-byte buffer.
read_byte(reader) ==
    LET r == McReader_read(reader, 1)
    IN  [reader |-> r.reader, ok |-> r.ok, byte |-> IF r.ok THEN r.buf[1] ELSE 0]

\* Results of a codec call.
NoVal == "none"
WOk(writer) == [writer |-> writer, res |-> "Ok"]
WErr(writer) == [writer |-> writer, res |-> "Err"]
ROk(reader, val) == [reader |-> reader, res |-> "Ok", val |-> val, err |-> ""]
RErr(reader, msg) == [reader |-> reader, res |-> "Err", val |-> NoVal, err |-> msg]
RPanic(reader) == [reader |-> reader, res |-> "Panic", val |-> NoVal, err |-> ""]
StreamError == "stream error"

\* The result of a sink call as the codec's Result.
FromSink(r) == IF r.ok THEN WOk(r.writer) ELSE WErr(r.writer)

(***************************************************************************)
(* Primitive codecs                                                        *)
(***************************************************************************)

\* <bool as McProtoSelf>::write: writer.write(&[u8::from(!self)])
bool_write(self, writer) ==
    FromSink(McWriter_write(writer, << IF ~self THEN 1 ELSE 0 >>))

\* <bool as McProtoSelf>::read
bool_read(reader) ==
    LET r == McReader_read(reader, 1)
    IN  IF ~r.ok THEN RErr(r.reader, StreamError)
        ELSE IF r.buf[1] = 0 THEN ROk(r.reader, FALSE)
        ELSE IF r.buf[1] = 1 THEN ROk(r.reader, TRUE)
        ELSE RErr(r.reader, "bad boolean value")

\* <u8 as McProtoSelf>::write on a byte: writer.write(&[self])
u8_write(self, writer) == FromSink(McWriter_write(writer, << self >>))

\* <u8 as McProtoSelf>::read
u8_read(reader) ==
    LET r == McReader_read(reader, 1)
    IN  IF ~r.ok THEN RErr(r.reader, StreamError)
        ELSE ROk(r.reader, r.buf[1])

\* to_be_bytes of a `bits`-bit value: most significant byte first.
to_be_bytes(bits, value) ==
    [k \in 1..(bits \div 8) |-> AsU8(Shr(value, 8 * ((bits \div 8) - k)))]

\* from_be_bytes of bits/8 bytes.
from_be_bytes(bits, bytes) ==
    UNION {Shl(NatBits(bytes[k]), 8 * ((bits \div 8) - k), bits) : k \in 1..(bits \div 8)}

\* int_impl!($ty, $bits) write: writer.write(&self.to_be_bytes())
int_write(bits, self, writer) ==
    FromSink(McWriter_write(writer, to_be_bytes(bits, self)))

\* int_impl!($ty, $bits) read
int_read(bits, reader) ==
    LET r == McReader_read(reader, bits \div 8)
    IN  IF ~r.ok THEN RErr(r.reader, StreamError)
        ELSE ROk(r.reader, from_be_bytes(bits, r.buf))

(***************************************************************************)
(* VarNum codec                                                            *)
(***************************************************************************)

RECURSIVE VarNum_write(_, _, _)
\* <VarNum as McProto<u32>>::write (bits = 32) and McProto<u64> (bits = 64).
\* The last group is written by `value.write(writer)` with value: u32/u64,
\* which is the int_impl! write of that type.
VarNum_write(bits, value, writer) ==
    IF value \ NatBits(SEGMENT_BITS) = {}
    THEN int_write(bits, value, writer)
    ELSE LET r == u8_write(ByteOr(ByteAnd(AsU8(value), SEGMENT_BITS), CONTINUE_BIT),
                           writer)
         IN  IF r.res # "Ok" THEN r
             ELSE VarNum_write(bits, Shr(value, 7), r.writer)

\* The error text of the two widths.
TooLarge(bits) == IF bits = 32 THEN "VarInt is too large" ELSE "VarLong is too large"

RECURSIVE VarNum_read_loop_LateCheck(_, _, _, _)
\* Mutant of VarNum_read_loop: the width check is made on `position` before it
\* is advanced, so one more byte is read before the read gives up.
VarNum_read_loop_LateCheck(bits, reader, value, position) ==
    LET r == read_byte(reader)
    IN  IF ~r.ok THEN RErr(r.reader, StreamError)
        ELSE LET v == value \cup Shl(NatBits(ByteAnd(r.byte, SEGMENT_BITS)), position, bits)
             IN  IF ByteAnd(r.byte, CONTINUE_BIT) = 0 THEN ROk(r.reader, v)
                 ELSE IF position >= bits THEN RErr(r.reader, TooLarge(bits))
                 ELSE VarNum_read_loop_LateCheck(bits, r.reader, v, position + 7)

RECURSIVE VarNum_read_loop(_, _, _, _)
\* One iteration of the read loop, with the locals `value` and `position`.
VarNum_read_loop(bits, reader, value, position) ==
    LET r == read_byte(reader)
    IN  IF ~r.ok THEN RErr(r.reader, StreamError)
        ELSE LET v == value \cup Shl(NatBits(ByteAnd(r.byte, SEGMENT_BITS)), position, bits)
             IN  IF ByteAnd(r.byte, CONTINUE_BIT) = 0 THEN ROk(r.reader, v)
                 ELSE IF position + 7 >= bits THEN RErr(r.reader, TooLarge(bits))
                 ELSE VarNum_read_loop(bits, r.reader, v, position + 7)

\* <VarNum as McProto<u32>>::read (bits = 32) and McProto<u64> (bits = 64).
VarNum_read(bits, reader) == VarNum_read_loop(bits, reader, {}, 0)

(***************************************************************************)
(* Text: UTF-8 and UTF-16                                                  *)
(***************************************************************************)

\* The UTF-8 bytes of one Unicode scalar value.
Utf8Char(c) ==
    IF c < 128 THEN << c >>
    ELSE IF c < 2048 THEN << 192 + (c \div 64), 128 + (c % 64) >>
    ELSE IF c < 65536
    THEN << 224 + (c \div 4096), 128 + ((c \div 64) % 64), 128 + (c % 64) >>
    ELSE << 240 + (c \div 262144), 128 + ((c \div 4096) % 64),
            128 + ((c \div 64) % 64), 128 + (c % 64) >>

RECURSIVE bytes(_)
\* String::bytes(): the UTF-8 bytes of the string.
bytes(s) == IF s = <<>> THEN <<>> ELSE Utf8Char(Head(s)) \o bytes(Tail(s))

\* The UTF-16 code units of one scalar value: 2 (a surrogate pair) above the BMP.
Utf16Units(c) == IF c >= 65536 THEN 2 ELSE 1

RECURSIVE utf16_count(_)
\* s.encode_utf16().count()
utf16_count(s) == IF s = <<>> THEN 0 ELSE Utf16Units(Head(s)) + utf16_count(Tail(s))

\* A UTF-8 continuation byte 10xxxxxx.
IsCont(b) == b >= 128 /\ b <= 191

\* The length of the UTF-8 sequence the bytes b start with, 0 when they do not
\* start with a well-formed one (overlong forms, surrogates and values past
\* U+10FFFF are refused, as core::str::from_utf8 refuses them).
Utf8SeqLen(b) ==
    LET n == Len(b)
        b1 == b[1]
    IN  IF b1 < 128 THEN 1
        ELSE IF b1 >= 194 /\ b1 <= 223
        THEN IF n >= 2 /\ IsCont(b[2]) THEN 2 ELSE 0
        ELSE IF b1 >= 224 /\ b1 <= 239
        THEN IF n >= 3 /\ IsCont(b[2]) /\ IsCont(b[3])
                /\ (b1 = 224 => b[2] >= 160) /\ (b1 = 237 => b[2] <= 159)
             THEN 3 ELSE 0
        ELSE IF b1 >= 240 /\ b1 <= 244
        THEN IF n >= 4 /\ IsCont(b[2]) /\ IsCont(b[3]) /\ IsCont(b[4])
                /\ (b1 = 240 => b[2] >= 144) /\ (b1 = 244 => b[2] <= 143)
             THEN 4 ELSE 0
        ELSE 0

\* The scalar value of a well-formed UTF-8 sequence of n bytes.
Utf8Scalar(b, n) ==
    IF n = 1 THEN b[1]
    ELSE IF n = 2 THEN (b[1] - 192) * 64 + (b[2] - 128)
    ELSE IF n = 3 THEN (b[1] - 224) * 4096 + (b[2] - 128) * 64 + (b[3] - 128)
    ELSE (b[1] - 240) * 262144 + (b[2] - 128) * 4096 + (b[3] - 128) * 64 + (b[4] - 128)

RECURSIVE from_utf8(_)
\* str::from_utf8 / String::from_utf8: the text, or an error.
from_utf8(b) ==
    IF b = <<>> THEN [ok |-> TRUE, s |-> <<>>]
    ELSE LET n == Utf8SeqLen(b)
         IN  IF n = 0 THEN [ok |-> FALSE, s |-> <<>>]
             ELSE LET rest == from_utf8(SubSeq(b, n + 1, Len(b)))
                  IN  IF rest.ok
                      THEN [ok |-> TRUE, s |-> << Utf8Scalar(b, n) >> \o rest.s]
                      ELSE rest

(***************************************************************************)
(* Text codec                                                              *)
(***************************************************************************)

RECURSIVE String_write_bytes_Unchecked(_, _)
\* Mutant of String_write_bytes: the result of each byte write is dropped.
String_write_bytes_Unchecked(bs, writer) ==
    IF bs = <<>> THEN WOk(writer)
    ELSE String_write_bytes_Unchecked(Tail(bs), u8_write(Head(bs), writer).writer)

RECURSIVE String_write_bytes(_, _)
\* for byte in self.bytes() { byte.write(writer)?; } Ok(())
String_write_bytes(bs, writer) ==
    IF bs = <<>> THEN WOk(writer)
    ELSE LET r == u8_write(Head(bs), writer)
         IN  IF r.res # "Ok" THEN r ELSE String_write_bytes(Tail(bs), r.writer)

\* <String as McProtoSelf>::write
String_write(self, writer) ==
    LET r == VarNum_write(32, NatBits(utf16_count(self)), writer)
    IN  IF r.res # "Ok" THEN r ELSE String_write_bytes(bytes(self), r.writer)

\* Mutant of String_read_count: the count is of scalar values (chars().count()).
String_read_count_Scalars(out, curr_length) ==
    LET t == from_utf8(out)
    IN  IF t.ok THEN Len(t.s) ELSE curr_length

\* Mutant of String_read_count: the count is of the bytes pushed so far.
String_read_count_Bytes(out, curr_length) == Len(out)

\* The update of curr_length after a byte was pushed to `out`.
String_read_count(out, curr_length) ==
    LET t == from_utf8(out)
    IN  IF t.ok THEN utf16_count(t.s) ELSE curr_length

RECURSIVE String_read_loop(_, _, _, _)
\* while curr_length < length { ... }  Ok(String::from_utf8(out).unwrap())
String_read_loop(reader, length, out, curr_length) ==
    IF BitsLess(NatBits(curr_length), length)
    THEN LET r == read_byte(reader)
         IN  IF ~r.ok THEN RErr(r.reader, StreamError)
             ELSE LET o == Append(out, r.byte)
                  IN  String_read_loop(r.reader, length, o,
                                       String_read_count(o, curr_length))
    ELSE LET t == from_utf8(out)
         IN  IF t.ok THEN ROk(reader, t.s) ELSE RPanic(reader)

\* <String as McProtoSelf>::read
String_read(reader) ==
    LET l == VarNum_read(32, reader)
    IN  IF l.res # "Ok" THEN l ELSE String_read_loop(l.reader, l.val, <<>>, 0)

(***************************************************************************)
(* Inputs                                                                  *)
(***************************************************************************)

\* Largest capacity of a failing sink.
MaxCap == 12
\* Longest string written, in scalar values.
MaxStrLen == 2
\* Longest byte stream offered to a VarInt read.
MaxVarIntSrc == 6
\* Longest run of continuation bytes offered to a VarLong read.
MaxVarLongRun == 11
\* Largest single-byte length prefix offered to a text read.
MaxPrefix == 3
\* Most fragments after the length prefix offered to a text read.
MaxFrags == 3
\* Longest byte stream offered to a fixed-width integer read.
MaxIntSrc == 9

\* The int_impl! integer types and their widths ($bits).
IntBits ==
    [i8 |-> 8, u16 |-> 16, i16 |-> 16, u32 |-> 32, i32 |-> 32, u64 |-> 64, i64 |-> 64]
IntTypes == DOMAIN IntBits

\* Bit patterns of a `bits`-bit type: 2^n - 1 and 2^n for every n, and
\* 2^bits - 2^n.  They hold 0, 1, the unsigned maximum (-1 signed), the signed
\* minimum and maximum, and a value of every bit length.
Values(bits) ==
    {0..(n - 1) : n \in 0..bits} \cup {{n} : n \in 0..(bits - 1)}
    \cup {n..(bits - 1) : n \in 0..(bits - 1)}

\* Every byte.
Bytes == 0..255

\* Scalar values of 1, 2, 3 and 4 UTF-8 bytes: a, e-acute, euro sign, U+1F600.
Chars == {97, 233, 8364, 128512}

\* Sequences over S of length at most n.
SeqsUpTo(S, n) == UNION {[1..k -> S] : k \in 0..n}

\* n copies of the byte b.
Rep(b, n) == [k \in 1..n |-> b]

Strings == SeqsUpTo(Chars, MaxStrLen)

\* The sinks a write is tried on: one that never fails, and for every N up to
\* MaxCap + 1 one that fails on byte N, with and without a partial delivery.
Sinks ==
    {NewSink(FALSE, 0, FALSE)}
    \cup {NewSink(TRUE, cap, partial) : cap \in 0..MaxCap, partial \in BOOLEAN}

\* Bytes that may follow a written value in the source.
Trails == {<<>>, << 255, 1 >>}

\* Byte streams offered to a boolean read: every byte, alone or followed by 0.
BoolSources == {<<>>} \cup {<< b >> : b \in Bytes} \cup {<< b, 0 >> : b \in Bytes}

\* Byte streams offered to a u8 or fixed-width integer read.
IntSources == {Rep(b, n) : b \in {0, 128, 255}, n \in 0..MaxIntSrc}

\* Byte streams offered to a VarInt read: all streams up to MaxVarIntSrc bytes
\* over 0x0F, 0x10 (final, payload within and past four bits) and 0x80, 0xFF
\* (continued, payload empty and full).
VarIntSources == SeqsUpTo({15, 16, 128, 255}, MaxVarIntSrc)

\* Byte streams offered to a VarLong read: a run of continuation bytes and
\* up to two further bytes.
VarLongSources ==
    {Rep(c, n) \o t : c \in {128, 255}, n \in 0..MaxVarLongRun,
                      t \in SeqsUpTo({0, 1, 2, 127, 255}, 2)}

\* Pieces of a text payload: whole characters, the first two bytes of a
\* four-byte character, a lone continuation byte, a byte that is never UTF-8.
Frags == {Utf8Char(c) : c \in Chars} \cup {<< 240, 159 >>, << 128 >>, << 255 >>}

RECURSIVE Concat(_)
Concat(ss) == IF ss = <<>> THEN <<>> ELSE Head(ss) \o Concat(Tail(ss))

\* Length prefixes: 0..MaxPrefix, 128 in two bytes, and five continuation bytes.
Prefixes ==
    {<< n >> : n \in 0..MaxPrefix} \cup {<< 128, 1 >>, << 255, 255, 255, 255, 255 >>}

\* Byte streams offered to a text read.
StringSources ==
    {<<>>} \cup {p \o Concat(f) : p \in Prefixes, f \in SeqsUpTo(Frags, MaxFrags)}

(***************************************************************************)
(* State                                                                   *)
(***************************************************************************)

VARIABLES
    pc,     \* "idle", "written" (a write returned), "read" (a read returned)
    codec,  \* the codec of the last call
    value,  \* the value handed to the write
    w,      \* the write's result and the sink after it
    fed,    \* TRUE when the read's source holds the bytes the write delivered
    trail,  \* the bytes that follow them in that source
    r       \* the read's result and the source after it

vars == << pc, codec, value, w, fed, trail, r >>

NoWrite == [writer |-> NewSink(FALSE, 0, FALSE), res |-> "None"]
NoRead == [reader |-> NewSource(<<>>), res |-> "None", val |-> NoVal, err |-> ""]

Init ==
    /\ pc = "idle"
    /\ codec = "none"
    /\ value = NoVal
    /\ w = NoWrite
    /\ fed = FALSE
    /\ trail = <<>>
    /\ r = NoRead

\* A caller writes `v` with codec `c` to a fresh sink; `res` is what write returned.
Written(c, v, res) ==
    /\ pc' = "written"
    /\ codec' = c
    /\ value' = v
    /\ w' = res
    /\ UNCHANGED << fed, trail, r >>

Write_bool ==
    /\ pc = "idle"
    /\ \E v \in BOOLEAN, s \in Sinks : Written("bool", v, bool_write(v, s))

Write_u8 ==
    /\ pc = "idle"
    /\ \E v \in Bytes, s \in Sinks : Written("u8", v, u8_write(v, s))

Write_int ==
    /\ pc = "idle"
    /\ \E ty \in IntTypes : \E v \in Values(IntBits[ty]), s \in Sinks :
        Written(ty, v, int_write(IntBits[ty], v, s))

Write_VarInt ==
    /\ pc = "idle"
    /\ \E v \in Values(32), s \in Sinks : Written("VarInt", v, VarNum_write(32, v, s))

Write_VarLong ==
    /\ pc = "idle"
    /\ \E v \in Values(64), s \in Sinks : Written("VarLong", v, VarNum_write(64, v, s))

Write_String ==
    /\ pc = "idle"
    /\ \E v \in Strings, s \in Sinks : Written("String", v, String_write(v, s))

\* The sources a read of codec `c` is tried on: any of `fresh` when nothing was
\* written, or the bytes a successful write of `c` delivered, then a trail.
\* Each is <<fed, trail, bytes>>.
SourcesFor(c, fresh) ==
    IF pc = "idle" THEN {<< FALSE, <<>>, b >> : b \in fresh}
    ELSE IF pc = "written" /\ codec = c /\ w.res = "Ok"
    THEN {<< TRUE, t, w.writer.bytes \o t >> : t \in Trails}
    ELSE {}

\* A caller reads with codec `c`; `res` is what read returned.
Read(c, src, res) ==
    /\ pc' = "read"
    /\ codec' = c
    /\ fed' = src[1]
    /\ trail' = src[2]
    /\ r' = res
    /\ UNCHANGED << value, w >>

Read_bool ==
    /\ pc # "read"
    /\ \E src \in SourcesFor("bool", BoolSources) :
        Read("bool", src, bool_read(NewSource(src[3])))

Read_u8 ==
    /\ pc # "read"
    /\ \E src \in SourcesFor("u8", IntSources) :
        Read("u8", src, u8_read(NewSource(src[3])))

Read_int ==
    /\ pc # "read"
    /\ \E ty \in IntTypes : \E src \in SourcesFor(ty, IntSources) :
        Read(ty, src, int_read(IntBits[ty], NewSource(src[3])))

Read_VarInt ==
    /\ pc # "read"
    /\ \E src \in SourcesFor("VarInt", VarIntSources) :
        Read("VarInt", src, VarNum_read(32, NewSource(src[3])))

Read_VarLong ==
    /\ pc # "read"
    /\ \E src \in SourcesFor("VarLong", VarLongSources) :
        Read("VarLong", src, VarNum_read(64, NewSource(src[3])))

Read_String ==
    /\ pc # "read"
    /\ \E src \in SourcesFor("String", StringSources) :
        Read("String", src, String_read(NewSource(src[3])))

Next ==
    \/ Write_bool
    \/ Write_u8
    \/ Write_int
    \/ Write_VarInt
    \/ Write_VarLong
    \/ Write_String
    \/ Read_bool
    \/ Read_u8
    \/ Read_int
    \/ Read_VarInt
    \/ Read_VarLong
    \/ Read_String

Spec == Init /\ [][Next]_vars

(***************************************************************************)
(* Properties                                                              *)
(***************************************************************************)

VarNumCodecs == {"VarInt", "VarLong"}
PrimitiveCodecs == {"bool", "u8"} \cup IntTypes

\* The bytes of the source that the read consumed.
Consumed == SubSeq(r.reader.bytes, 1, r.reader.pos)

\* The number of bits of a value: 0 for 0, else the highest 1 bit plus one.
BitLength(v) == IF v = {} THEN 0 ELSE (CHOOSE i \in v : \A j \in v : j <= i) + 1

\* max(1, ceil(bitlength(v) / 7))
GroupCount(v) == IF v = {} THEN 1 ELSE (BitLength(v) + 6) \div 7

\* The k-th 7-bit group of v (k from 0), as a number 0..127.
Group(v, k) == SumPow2(Shr(v, 7 * k) \cap 0..6)

\* The encoding C1 describes: GroupCount(v) bytes, every byte but the last with
\* the continuation bit set, the last with it clear.
GroupBytes(v) ==
    [k \in 1..GroupCount(v) |->
        Group(v, k - 1) + (IF k < GroupCount(v) THEN CONTINUE_BIT ELSE 0)]

\* C1: a VarNum write of v to a sink that does not fail emits exactly
\* max(1, ceil(bitlength(v)/7)) bytes, the 7-bit groups of v from the lowest,
\* every byte but the last with the continuation bit set (0 is the byte 0x00,
\* 128 the bytes 0x80 0x01, u32::MAX five bytes).
C1_VarNumWriteBytes ==
    (pc = "written" /\ codec \in VarNumCodecs /\ ~w.writer.limited)
        => /\ w.res = "Ok"
           /\ Len(w.writer.bytes) = GroupCount(value)
           /\ w.writer.bytes = GroupBytes(value)

\* C2: a boolean read of a source that holds a byte consumes one byte and
\* returns true for 0x00, false for 0x01 and the error "bad boolean value"
\* for every other byte.
C2_BoolRead ==
    (pc = "read" /\ codec = "bool" /\ r.reader.bytes # <<>>)
        => /\ r.reader.pos = 1
           /\ r.reader.bytes[1] = 0 => (r.res = "Ok" /\ r.val = TRUE)
           /\ r.reader.bytes[1] = 1 => (r.res = "Ok" /\ r.val = FALSE)
           /\ r.reader.bytes[1] > 1 => (r.res = "Err" /\ r.err = "bad boolean value")

\* The width in bytes of a primitive type on the wire.
WireBytes(c) == IF c \in {"bool", "u8"} THEN 1 ELSE IntBits[c] \div 8

\* C3: for boolean and every fixed-width integer type, reading from a source
\* that holds exactly the bytes a write of v delivered succeeds, returns v and
\* consumes all of them, bit-width/8 bytes.
C3_PrimitiveRoundTrip ==
    (pc = "read" /\ fed /\ trail = <<>> /\ codec \in PrimitiveCodecs)
        => /\ r.res = "Ok"
           /\ r.val = value
           /\ r.reader.pos = Len(w.writer.bytes)
           /\ r.reader.pos = WireBytes(codec)

\* C4: reading text from a source that holds exactly the bytes a text write
\* of s delivered succeeds and returns s, and the length prefix the reader
\* decodes is the number of UTF-16 code units of s.
C4_TextRoundTrip ==
    (pc = "read" /\ fed /\ trail = <<>> /\ codec = "String")
        => /\ r.res = "Ok"
           /\ r.val = value
           /\ VarNum_read(32, NewSource(r.reader.bytes)).val = NatBits(utf16_count(value))

\* The exact sum of (b_i AND 0x7F) * 2^(7*i) over the bytes b, as a bit
\* pattern of unbounded width (the groups do not overlap).
PayloadSum(b) ==
    UNION {{i + 7 * (k - 1) : i \in NatBits(ByteAnd(b[k], SEGMENT_BITS))} : k \in 1..Len(b)}

\* C5: whenever a VarNum read returns Ok(value), value is the exact sum of the
\* payloads of the consumed bytes at their offsets: no payload bit is dropped
\* (a sequence that does not fit the width is refused, not truncated).
C5_VarNumReadExact ==
    (pc = "read" /\ codec \in VarNumCodecs /\ r.res = "Ok")
        => r.val = PayloadSum(Consumed)

\* The most bytes a VarNum read may consume: 5 (u32), 10 (u64).
Ceiling(c) == IF c = "VarInt" THEN 5 ELSE 10

\* The bits of the value a VarNum codec reads.
VarNumBits(c) == IF c = "VarInt" THEN 32 ELSE 64

\* The first n bytes of b, or all of b when it is shorter.
FirstBytes(b, n) == SubSeq(b, 1, IF Len(b) < n THEN Len(b) ELSE n)

\* The bytes of b with the continuation bit clear, by index.
Finals(b) == {i \in 1..Len(b) : b[i] < CONTINUE_BIT}

\* C6: on every source a VarNum read consumes at most 5 (u32) or 10 (u64)
\* bytes; it returns "too large" exactly when the first 5 (10) bytes are all
\* there and all have the continuation bit set, Ok at the first byte with the
\* bit clear among them, and a stream error when the source runs out first.
C6_VarNumReadBounded ==
    (pc = "read" /\ codec \in VarNumCodecs)
        => LET n == Ceiling(codec)
               head == FirstBytes(r.reader.bytes, n)
           IN  /\ r.reader.pos <= n
               /\ (r.res = "Err" /\ r.err = TooLarge(VarNumBits(codec)))
                    <=> (Len(head) = n /\ Finals(head) = {})
               /\ r.res = "Ok" <=> Finals(head) # {}
               /\ r.res = "Ok" => \A i \in Finals(head) : r.reader.pos <= i
               /\ r.res = "Ok" => r.reader.pos \in Finals(head)
               /\ (r.res = "Err" /\ r.err = StreamError)
                    <=> (Len(head) < n /\ Finals(head) = {})

\* C6 witness: a VarLong read of more than ten continuation bytes stopped
\* after the tenth with "too large".
C6_Witness ==
    /\ pc = "read" /\ codec = "VarLong" /\ ~fed
    /\ Len(r.reader.bytes) > 10
    /\ r.reader.pos = 10
    /\ r.err = TooLarge(64)

\* What write of codec c does with value v on the sink s.
WriteOf(c, v, s) ==
    IF c = "bool" THEN bool_write(v, s)
    ELSE IF c = "u8" THEN u8_write(v, s)
    ELSE IF c = "VarInt" THEN VarNum_write(32, v, s)
    ELSE IF c = "VarLong" THEN VarNum_write(64, v, s)
    ELSE IF c = "String" THEN String_write(v, s)
    ELSE int_write(IntBits[c], v, s)

\* The bytes codec c delivers for v to a sink that never fails.
Encoding(c, v) == WriteOf(c, v, NewSink(FALSE, 0, FALSE)).writer.bytes

\* C7: a codec write returns the sink's failure to its caller: it fails
\* exactly when the sink fails, which is when the sink cannot take the N-th
\* byte of the encoding; after a failed sink call it makes no further sink
\* call, and the bytes delivered before the failure are a prefix of the
\* encoding.
C7_WriteErrorPropagates ==
    pc = "written"
        => LET enc == Encoding(codec, value)
           IN  /\ w.res \in {"Ok", "Err"}
               /\ w.res = "Err" <=> w.writer.failed
               /\ w.writer.failed <=> (w.writer.limited /\ Len(enc) > w.writer.cap)
               /\ w.writer.late = 0
               /\ Len(w.writer.bytes) <= Len(enc)
               /\ w.writer.bytes = SubSeq(enc, 1, Len(w.writer.bytes))
               /\ w.res = "Ok" => w.writer.bytes = enc

\* C7 witness: a text write whose sink failed in the payload, after the
\* length prefix and at least one payload byte were delivered.
C7_Witness ==
    /\ pc = "written" /\ codec = "String"
    /\ w.res = "Err"
    /\ w.writer.calls >= 3
    /\ w.writer.calls < Len(bytes(value)) + 1

\* C8: a VarNum read of a source that holds the bytes VarNum write(v)
\* delivered, followed by any further bytes, returns Ok(v) and consumes
\* exactly the bytes the write delivered.
C8_VarNumSelfDelimiting ==
    (pc = "read" /\ fed /\ codec \in VarNumCodecs)
        => /\ r.res = "Ok"
           /\ r.val = value
           /\ r.reader.pos = Len(w.writer.bytes)

\* The length prefix a text read decoded from its source, and where it ended.
Prefix == VarNum_read(32, NewSource(r.reader.bytes))

\* The bytes a text read consumed after the length prefix.
Payload == SubSeq(r.reader.bytes, Prefix.reader.pos + 1, r.reader.pos)

\* C9 as stated: whenever a text read returns Ok(s) after decoding the prefix
\* L, the UTF-16 code-unit count of s equals L, and the bytes consumed after
\* the prefix are the UTF-8 bytes of s.
C9_TextReadExactCount ==
    (pc = "read" /\ codec = "String" /\ r.res = "Ok")
        => /\ NatBits(utf16_count(r.val)) = Prefix.val
           /\ Payload = bytes(r.val)

\* C9 as amended: whenever a text read returns Ok(s) after decoding the
\* prefix L, the UTF-16 code-unit count of s is L, or L + 1 when the last
\* character of s is a 2-unit (surrogate-pair) character; the bytes consumed
\* after the prefix are the UTF-8 bytes of s.
C9_TextReadCountReached ==
    (pc = "read" /\ codec = "String" /\ r.res = "Ok")
        => /\ \/ NatBits(utf16_count(r.val)) = Prefix.val
              \/ /\ r.val # <<>>
                 /\ Utf16Units(r.val[Len(r.val)]) = 2
                 /\ NatBits(utf16_count(r.val) - 1) = Prefix.val
           /\ Payload = bytes(r.val)

\* C9 witness: a text read returned a string one code unit longer than the
\* prefix announced.
C9_Witness ==
    /\ pc = "read" /\ codec = "String" /\ r.res = "Ok"
    /\ NatBits(utf16_count(r.val) - 1) = Prefix.val
    /\ Len(r.val) >= 2

\* C10: a text read never faults: on every source it ends in Ok(string) or
\* in a returned stream error or "too large" error; when the loop exits the
\* accumulated bytes are valid UTF-8, so the final conversion does not panic.
C10_TextReadNeverPanics ==
    (pc = "read" /\ codec = "String")
        => /\ r.res \in {"Ok", "Err"}
           /\ r.res = "Ok" => from_utf8(Payload).ok
           /\ r.res = "Err" => r.err \in {StreamError, TooLarge(32)}

\* C10 witness: a text read returned Ok although the bytes it had consumed
\* were not UTF-8 at some point (its text holds a multi-byte character), read
\* from a source that no write of the model produced.
C10_Witness ==
    /\ pc = "read" /\ codec = "String" /\ ~fed
    /\ r.res = "Ok"
    /\ \E i \in 1..Len(r.val) : r.val[i] >= 128
    /\ r.reader.pos < Len(r.reader.bytes)

=============================================================================
